---- MODULE Spec2Model ----
(***************************************************************************)
(* A model of the airplanes-live MCP repository:                           *)
(*   - the stdio JSON-RPC bridge MCPStdioWrapper of src/sse_wrapper.py,    *)
(*     its callers (the /sse stream and the /mcp/tools/call endpoint),     *)
(*     the child process it talks to and the startup/shutdown hooks;       *)
(*   - the argument validation of the tool handlers of                     *)
(*     src/airplane_server.py and src/airplane_server_fastmcp.py.          *)
(*                                                                         *)
(* The bridge runs on one asyncio event loop: the code between two         *)
(* suspension points is one atomic action.  The suspension points of       *)
(* send_request are `await create_subprocess_exec` (always suspends) and   *)
(* `await stdout.readline()` (suspends only when the reader's buffer holds *)
(* no line and no EOF).  `await stdin.drain()` returns without yielding    *)
(* unless the transport is paused (more than 64 KiB unsent) or closing; the*)
(* line-sized messages of the bridge never pause it, and on a closing      *)
(* transport drain raises.                                                 *)
(***************************************************************************)
EXTENDS Integers, Sequences, FiniteSets, TLC

\* Cap on self.request_id: no call starts unless the ids it may need are left.
MaxId == 4
\* Cap on the number of child processes spawned in one run.
MaxChildren == 2
\* Cap on the number of completed cleanup() calls.
MaxCleanups == 2

\* The concurrent users of the one global mcp_wrapper.
Callers == {"sse", "call"}
NoCaller == "none"
Children == 1..MaxChildren
\* self.process = None
NoProcess == 0
\* A response line that json.loads rejects.
BadLine == 0

VARIABLES
    process,        \* self.process: NoProcess or the child held
    request_id,     \* self.request_id
    initialized,    \* self.initialized
    nspawn,         \* number of children created so far (children are 1..nspawn)
    exited,         \* exited[k]: child k has a returncode (its stdout is at EOF)
    hung,           \* hung[k]: child k is alive but will never read or write again
    sigterm,        \* sigterm[k]: number of terminate() calls made on child k
    wire,           \* every line the bridge wrote, in order: [k, m, id]
    rpos,           \* rpos[k]: how many lines of its stdin child k has consumed
    outbuf,         \* outbuf[k]: lines in the StreamReader of child k's stdout
    waiter,         \* waiter[k]: the caller suspended in readline on child k
    pc,             \* pc[c]: where caller c is inside send_request
    rdr,            \* rdr[c]: the child whose stdout c's pending readline reads
    req,            \* req[c]: id of the request c wrote for itself (0: none yet)
    resp,           \* resp[c]: id carried by the response returned to c
    err,            \* err[c]: the exception that ended c's call
    spawnedBy,      \* spawnedBy[c]: the child c's current call spawned (0: none)
    found,          \* found[c]: what c's current call found at its first `if`
    cleanup_pc,     \* position of the cleanup() coroutine
    cleanup_k,      \* the child cleanup() waits for
    cleanups,       \* completed cleanup() calls
    cleanup_err,    \* cleanup() raised
    overlapped,     \* history: two send_request calls were ever active at once
    faults,         \* history: a spawn failed, or a child died, hung or wrote a bad line
    hs_failed,      \* history: a handshake failed and no send_request began since
    tvariant,       \* tool server in use: "server" (airplane_server) or "fastmcp"
    tname,          \* name of the tool invoked
    targs,          \* its arguments: a mapping from argument names to strings
    tpc,            \* position of the tool handler
    tresult,        \* the text the handler returned
    tupstream,      \* the upstream API requests made, in order
    toutcome,       \* how the upstream request ended ("": not yet)
    sse_pc,         \* position of the event generator of the /sse connection
    events,         \* the events the generator has yielded, in order
    disconnected,   \* the client of the /sse connection has gone
    observed,       \* history: request.is_disconnected() returned True
    a_pc,           \* position of the endpoint handler serving the adapter request
    a_ep,           \* the endpoint of the SSE wrapper that was requested
    a_city,         \* the city name of a /api/aircraft/near/city request
    a_geo,          \* how the geocoding request of that endpoint ended
    a_called,       \* the request has called the bridge
    a_resp,         \* the HTTP response: [status, body, msg, city]
    a_failed,       \* history: an earlier adapter request met a bridge failure
    h_pc,           \* position of the endpoint handler of the HTTP facade
    h_ep,           \* the facade endpoint requested
    h_arg,          \* the value of its query
    h_upstream,     \* the upstream API requests made for this facade request
    h_reply,        \* what make_api_request did: [o, data, msg]
    h_resp,         \* the HTTP response of the facade: [status, body, detail]
    now,            \* the clock, in seconds since the application started
    cron_pc,        \* position of cron_job_task ("none": cron_task is None)
    cron_wake,      \* the time at which its pending asyncio.sleep returns
    cron_cancel,    \* cron_task.cancel() was called
    cron_run_count, \* the global cron_run_count
    cron_last_run,  \* the global cron_last_run (NoTime: None)
    failed_at,      \* history: when the last iteration failed (NoTime: it did not)
    shut_pc,        \* position of the shutdown_event that stops the loop
    c_view          \* the last answer of /api/cron/status or /health

bvars == <<process, request_id, initialized, nspawn, exited, hung, sigterm, wire,
           rpos, outbuf, waiter, pc, rdr, req, resp, err, spawnedBy, found,
           cleanup_pc, cleanup_k, cleanups, cleanup_err, overlapped, faults,
           hs_failed>>

tvars == <<tvariant, tname, targs, tpc, tresult, tupstream, toutcome>>

svars == <<sse_pc, events, disconnected, observed>>

avars == <<a_pc, a_ep, a_city, a_geo, a_called, a_resp, a_failed>>

hvars == <<h_pc, h_ep, h_arg, h_upstream, h_reply, h_resp>>

cvars == <<now, cron_pc, cron_wake, cron_cancel, cron_run_count, cron_last_run,
           failed_at, shut_pc, c_view>>

vars == <<bvars, tvars, svars, avars, hvars, cvars>>

\* What the operations of each part leave alone.
notB == <<tvars, svars, avars, hvars, cvars>>
notT == <<bvars, svars, avars, hvars, cvars>>
notS == <<bvars, tvars, avars, hvars, cvars>>
notA == <<bvars, tvars, svars, hvars, cvars>>
notH == <<bvars, tvars, svars, avars, cvars>>
notC == <<bvars, tvars, svars, avars, hvars>>

\* The method each caller sends: /sse lists the tools, /mcp/tools/call calls one.
Method(c) == IF c = "sse" THEN "tools/list" ELSE "tools/call"

Active(p) == p \in {"spawn", "init_read", "call_read"}

\* The bridge, its callers and the pipes as one record, so that the code
\* between two suspension points composes as a function on it.
Cur ==
    [process |-> process, request_id |-> request_id, initialized |-> initialized,
     nspawn |-> nspawn, exited |-> exited, wire |-> wire, outbuf |-> outbuf,
     waiter |-> waiter, pc |-> pc, rdr |-> rdr, req |-> req, resp |-> resp,
     err |-> err, spawnedBy |-> spawnedBy, found |-> found, faults |-> faults]

Set(s) ==
    /\ process' = s.process
    /\ request_id' = s.request_id
    /\ initialized' = s.initialized
    /\ nspawn' = s.nspawn
    /\ exited' = s.exited
    /\ wire' = s.wire
    /\ outbuf' = s.outbuf
    /\ waiter' = s.waiter
    /\ pc' = s.pc
    /\ rdr' = s.rdr
    /\ req' = s.req
    /\ resp' = s.resp
    /\ err' = s.err
    /\ spawnedBy' = s.spawnedBy
    /\ found' = s.found
    /\ faults' = s.faults

\* The lines written to child k, in order.
Log(w, k) == SelectSeq(w, LAMBDA e : e.k = k)

IsRequest(e) == e.id # 0

\* stdin.write(line) on the child the bridge holds.
Emit(s, m, id) ==
    [s EXCEPT !.wire = Append(@, [k |-> s.process, m |-> m, id |-> id])]

\* An exception leaves send_request.
Fail(s, c, e) == [s EXCEPT !.pc[c] = "failed", !.err[c] = e]

\* `return response`
Return(s, c, line) == [s EXCEPT !.pc[c] = "done", !.resp[c] = line]

\* Variant of ParseResponse that writes the request again after a line that
\* does not parse, and waits for another line.
ParseResponseRetrying(s, c, line) ==
    IF line = BadLine
    THEN [Emit(s, Method(c), s.req[c]) EXCEPT !.waiter[s.rdr[c]] = c,
                                              !.pc[c] = "call_read"]
    ELSE Return(s, c, line)

\* json.loads of the line read for the caller's own request.
ParseResponse(s, c, line) ==
    IF line = BadLine THEN Fail(s, c, "json") ELSE Return(s, c, line)

\* `await self.process.stdout.readline()` of send_request, on the reader the
\* call is bound to: a buffered line is returned at once; at EOF readline
\* returns b"" and json.loads raises; a second coroutine waiting on the same
\* reader gets RuntimeError; otherwise the caller suspends as the waiter.
ReadResponse(s, c) ==
    LET k == s.rdr[c] IN
    IF s.outbuf[k] # <<>>
    THEN ParseResponse([s EXCEPT !.outbuf[k] = Tail(@)], c, Head(s.outbuf[k]))
    ELSE IF s.exited[k] THEN Fail(s, c, "eof")
    ELSE IF s.waiter[k] # NoCaller THEN Fail(s, c, "runtime")
    ELSE [s EXCEPT !.waiter[k] = c, !.pc[c] = "call_read"]

\* Variant of WriteRequest that sends the request under the current counter
\* value instead of a fresh one.
WriteRequestReusingId(s, c, dr) ==
    LET id == s.request_id
        s1 == Emit([s EXCEPT !.req[c] = id, !.rdr[c] = s.process], Method(c), id)
    IN IF s.exited[s.process] /\ dr THEN Fail(s1, c, "pipe")
       ELSE ReadResponse(s1, c)

\* request_id += 1, write the request, drain, then read.  dr: drain raises
\* when the pipe of an exited child is written.
WriteRequest(s, c, dr) ==
    LET id == s.request_id + 1
        s1 == Emit([s EXCEPT !.request_id = id, !.req[c] = id,
                             !.rdr[c] = s.process], Method(c), id)
    IN IF s.exited[s.process] /\ dr THEN Fail(s1, c, "pipe")
       ELSE ReadResponse(s1, c)

\* The rest of initialize() after its response line parsed, then
\* `self.initialized = True` and the caller's own request.
FinishHandshake(s, c, dr) ==
    LET s1 == Emit(s, "notifications/initialized", 0)
    IN IF s.exited[s.process] /\ dr THEN Fail(s1, c, "pipe")
       ELSE WriteRequest([s1 EXCEPT !.initialized = TRUE], c, dr)

\* readline + json.loads inside initialize().
ReadInit(s, c, dr) ==
    LET k == s.rdr[c] IN
    IF s.outbuf[k] # <<>>
    THEN IF Head(s.outbuf[k]) = BadLine
         THEN Fail([s EXCEPT !.outbuf[k] = Tail(@)], c, "json")
         ELSE FinishHandshake([s EXCEPT !.outbuf[k] = Tail(@)], c, dr)
    ELSE IF s.exited[k] THEN Fail(s, c, "eof")
    ELSE IF s.waiter[k] # NoCaller THEN Fail(s, c, "runtime")
    ELSE [s EXCEPT !.waiter[k] = c, !.pc[c] = "init_read"]

\* initialize(): request_id += 1, write `initialize`, drain, read.
Initialize(s, c, dr) ==
    LET id == s.request_id + 1
        s1 == Emit([s EXCEPT !.request_id = id, !.rdr[c] = s.process],
                   "initialize", id)
    IN IF s.exited[s.process] /\ dr THEN Fail(s1, c, "pipe")
       ELSE ReadInit(s1, c, dr)

\* Variant of AfterEnsure that runs the handshake on every call.
AfterEnsureAlwaysInit(s, c, dr) == Initialize(s, c, dr)

\* send_request from `if not self.initialized` on.
AfterEnsure(s, c, dr) ==
    IF ~s.initialized THEN Initialize(s, c, dr) ELSE WriteRequest(s, c, dr)

\* Variant of NeedsSpawn that looks only at whether a process was ever set.
NeedsSpawnIgnoringExit(s) == s.process = NoProcess

\* `if not self.process or self.process.returncode is not None`
NeedsSpawn(s) == s.process = NoProcess \/ s.exited[s.process]

\* The caller's locals at the start of a call.
Enter(s, c) ==
    [s EXCEPT !.req[c] = 0, !.resp[c] = 0, !.err[c] = "", !.rdr[c] = 0,
              !.spawnedBy[c] = 0,
              !.found[c] = IF s.process = NoProcess THEN "none"
                           ELSE IF s.exited[s.process] THEN "exited" ELSE "running"]

\* Variant of Spawned that leaves the initialized flag as it was.
SpawnedKeepingFlag(s, c) ==
    LET k == s.nspawn + 1
    IN [s EXCEPT !.process = k, !.nspawn = k, !.spawnedBy[c] = k]

\* start_mcp_server() returned: self.process = the new child, then
\* `self.initialized = False`.
Spawned(s, c) ==
    LET k == s.nspawn + 1
    IN [s EXCEPT !.process = k, !.nspawn = k, !.initialized = FALSE,
                 !.spawnedBy[c] = k]

\* shutdown_event is the only caller of cleanup(): once the application shuts
\* down its endpoints admit no new request (calls in flight still run).
ShuttingDown == cleanups > 0 \/ cleanup_pc # "idle"

NumActive == Cardinality({c \in Callers : Active(pc[c])})
NumSpawning == Cardinality({c \in Callers : pc[c] = "spawn"})

\* The call of a caller ended inside initialize(): readline returned b"" at
\* EOF or a line json.loads rejects, before the caller's own request had an id.
HandshakeFailed(p, e, r) == p = "failed" /\ e \in {"eof", "json"} /\ r = 0

\* send_request from its entry up to its first suspension point.
SendRequest(c) ==
    /\ ~Active(pc[c])
    /\ ~ShuttingDown
    /\ request_id + 2 * (NumActive + 1) <= MaxId
    /\ overlapped' = (overlapped \/ NumActive > 0)
    /\ IF NeedsSpawn(Cur)
       THEN /\ nspawn + NumSpawning < MaxChildren
            /\ Set([Enter(Cur, c) EXCEPT !.pc[c] = "spawn"])
       ELSE \E dr \in BOOLEAN : Set(AfterEnsure(Enter(Cur, c), c, dr))
    /\ hs_failed' = HandshakeFailed(pc'[c], err'[c], req'[c])
    /\ UNCHANGED <<hung, sigterm, rpos, cleanup_pc, cleanup_k, cleanups, cleanup_err>>

\* A call begins: an endpoint other than the /sse stream calls send_request.
StartCall(c) == SendRequest(c) /\ UNCHANGED notB

\* create_subprocess_exec completed.
SpawnDone(c) ==
    /\ pc[c] = "spawn"
    /\ \E dr \in BOOLEAN : Set(AfterEnsure(Spawned(Cur, c), c, dr))
    /\ hs_failed' = (hs_failed \/ HandshakeFailed(pc'[c], err'[c], req'[c]))
    /\ UNCHANGED <<hung, sigterm, rpos, cleanup_pc, cleanup_k, cleanups, cleanup_err,
                   overlapped>>
    /\ UNCHANGED notB

\* create_subprocess_exec raised (the executable cannot be launched).
SpawnFail(c) ==
    /\ pc[c] = "spawn"
    /\ Set([Fail(Cur, c, "spawn") EXCEPT !.faults = TRUE])
    /\ UNCHANGED hs_failed
    /\ UNCHANGED <<hung, sigterm, rpos, cleanup_pc, cleanup_k, cleanups, cleanup_err,
                   overlapped>>
    /\ UNCHANGED notB

\* A caller suspended in readline was woken (data or EOF was fed) and runs.
Resume(c) ==
    /\ pc[c] \in {"init_read", "call_read"}
    /\ waiter[rdr[c]] # c
    /\ \E dr \in BOOLEAN :
         Set(IF pc[c] = "init_read" THEN ReadInit(Cur, c, dr) ELSE ReadResponse(Cur, c))
    /\ hs_failed' = (hs_failed \/ HandshakeFailed(pc'[c], err'[c], req'[c]))
    /\ UNCHANGED <<hung, sigterm, rpos, cleanup_pc, cleanup_k, cleanups, cleanup_err,
                   overlapped>>
    /\ UNCHANGED notB

Alive(k) == k \in 1..nspawn /\ ~exited[k]

\* Index in child k's stdin of the next request it has not consumed (0: none).
NextRequest(k) ==
    LET L == Log(wire, k)
        I == {i \in (rpos[k] + 1)..Len(L) : IsRequest(L[i])}
    IN IF I = {} THEN 0 ELSE CHOOSE i \in I : \A j \in I : i <= j

\* The child reads up to its next request and writes one response line:
\* a JSON-RPC response echoing the id, or a line that is not JSON.
ChildRespond(k, good) ==
    /\ Alive(k) /\ ~hung[k]
    /\ NextRequest(k) # 0
    /\ LET i == NextRequest(k)
           line == IF good THEN Log(wire, k)[i].id ELSE BadLine
       IN /\ rpos' = [rpos EXCEPT ![k] = i]
          /\ outbuf' = [outbuf EXCEPT ![k] = Append(@, line)]
    /\ waiter' = [waiter EXCEPT ![k] = NoCaller]
    /\ faults' = (faults \/ ~good)
    /\ UNCHANGED <<process, request_id, initialized, nspawn, exited, hung, sigterm, wire,
                   pc, rdr, req, resp, err, spawnedBy, found, cleanup_pc, cleanup_k, cleanups,
                   cleanup_err, overlapped>>
    /\ UNCHANGED hs_failed
    /\ UNCHANGED notB

\* The child stays alive but never answers the request it was sent.
ChildHang(k) ==
    /\ Alive(k) /\ ~hung[k]
    /\ NextRequest(k) # 0
    /\ hung' = [hung EXCEPT ![k] = TRUE]
    /\ faults' = TRUE
    /\ UNCHANGED <<process, request_id, initialized, nspawn, exited, sigterm, wire, rpos,
                   outbuf, waiter, pc, rdr, req, resp, err, spawnedBy, found, cleanup_pc,
                   cleanup_k, cleanups, cleanup_err, overlapped>>
    /\ UNCHANGED hs_failed
    /\ UNCHANGED notB

\* The child exits (a crash, an external kill, or SIGTERM): the loop records
\* its returncode and feeds EOF to its stdout reader, waking the waiter.
ChildExit(k) ==
    /\ Alive(k)
    /\ exited' = [exited EXCEPT ![k] = TRUE]
    /\ waiter' = [waiter EXCEPT ![k] = NoCaller]
    /\ faults' = TRUE
    /\ UNCHANGED <<process, request_id, initialized, nspawn, hung, sigterm, wire, rpos,
                   outbuf, pc, rdr, req, resp, err, spawnedBy, found, cleanup_pc, cleanup_k,
                   cleanups, cleanup_err, overlapped>>
    /\ UNCHANGED hs_failed
    /\ UNCHANGED notB

\* startup_event: the application spawns the child before it serves requests.
Startup ==
    /\ process = NoProcess /\ nspawn = 0 /\ wire = <<>> /\ cleanups = 0
    /\ cleanup_pc = "idle"
    /\ \A c \in Callers : pc[c] = "idle"
    /\ process' = 1
    /\ nspawn' = 1
    /\ UNCHANGED <<request_id, initialized, exited, hung, sigterm, wire, rpos, outbuf,
                   waiter, pc, rdr, req, resp, err, spawnedBy, found, cleanup_pc, cleanup_k,
                   cleanups, cleanup_err, overlapped, faults>>
    /\ UNCHANGED hs_failed
    /\ UNCHANGED notB

\* Variant of CleanupGuard that does not look at the returncode.
CleanupGuardIgnoringExit == process # NoProcess

\* `if self.process and self.process.returncode is None`
CleanupGuard == process # NoProcess /\ ~exited[process]

\* cleanup() up to `await self.process.wait()`.  terminate() on a process
\* that is not running raises ProcessLookupError.
Cleanup ==
    /\ cleanup_pc = "idle"
    /\ cleanups < MaxCleanups
    /\ IF CleanupGuard
       THEN IF process # NoProcess /\ ~exited[process]
            THEN /\ sigterm' = [sigterm EXCEPT ![process] = @ + 1]
                 /\ cleanup_pc' = "wait"
                 /\ cleanup_k' = process
                 /\ UNCHANGED <<cleanups, cleanup_err>>
            ELSE /\ cleanup_err' = TRUE
                 /\ cleanups' = cleanups + 1
                 /\ UNCHANGED <<sigterm, cleanup_pc, cleanup_k>>
       ELSE /\ cleanups' = cleanups + 1
            /\ UNCHANGED <<sigterm, cleanup_pc, cleanup_k, cleanup_err>>
    /\ UNCHANGED <<process, request_id, initialized, nspawn, exited, hung, wire, rpos,
                   outbuf, waiter, pc, rdr, req, resp, err, spawnedBy, found,
                   overlapped, faults>>
    /\ UNCHANGED hs_failed
    /\ UNCHANGED notB

\* wait() returns once the child has exited.
CleanupReturn ==
    /\ cleanup_pc = "wait"
    /\ exited[cleanup_k]
    /\ cleanup_pc' = "idle"
    /\ cleanup_k' = 0
    /\ cleanups' = cleanups + 1
    /\ UNCHANGED <<process, request_id, initialized, nspawn, exited, hung, sigterm, wire,
                   rpos, outbuf, waiter, pc, rdr, req, resp, err, spawnedBy, found,
                   cleanup_err, overlapped, faults>>
    /\ UNCHANGED hs_failed
    /\ UNCHANGED notB

\* No /sse connection yet.
SseIdle ==
    /\ sse_pc = "idle"
    /\ events = <<>>
    /\ disconnected = FALSE
    /\ observed = FALSE

NoResponse == [status |-> 0, body |-> "", msg |-> "", city |-> ""]

\* No adapter request yet.
AdapterIdle ==
    /\ a_pc = "idle"
    /\ a_ep = ""
    /\ a_city = ""
    /\ a_geo = ""
    /\ a_called = FALSE
    /\ a_resp = NoResponse
    /\ a_failed = FALSE

NoReply == [o |-> "", data |-> "", msg |-> ""]
NoFacadeResponse == [status |-> 0, body |-> "", detail |-> ""]

\* No facade request yet.
FacadeIdle ==
    /\ h_pc = "idle"
    /\ h_ep = ""
    /\ h_arg = <<>>
    /\ h_upstream = <<>>
    /\ h_reply = NoReply
    /\ h_resp = NoFacadeResponse

\* cron_last_run = None; no failure yet.
NoTime == -1

NoView == [kind |-> "", active |-> FALSE, last_run |-> NoTime, run_count |-> 0]

\* The module globals before the startup hook, the clock at zero.
CronIdle ==
    /\ now = 0
    /\ cron_pc = "none"
    /\ cron_wake = 0
    /\ cron_cancel = FALSE
    /\ cron_run_count = 0
    /\ cron_last_run = NoTime
    /\ failed_at = NoTime
    /\ shut_pc = "idle"
    /\ c_view = NoView

BridgeInit ==
    /\ process = NoProcess
    /\ request_id = 0
    /\ initialized = FALSE
    /\ nspawn = 0
    /\ exited = [k \in Children |-> FALSE]
    /\ hung = [k \in Children |-> FALSE]
    /\ sigterm = [k \in Children |-> 0]
    /\ wire = <<>>
    /\ rpos = [k \in Children |-> 0]
    /\ outbuf = [k \in Children |-> <<>>]
    /\ waiter = [k \in Children |-> NoCaller]
    /\ pc = [c \in Callers |-> "idle"]
    /\ rdr = [c \in Callers |-> 0]
    /\ req = [c \in Callers |-> 0]
    /\ resp = [c \in Callers |-> 0]
    /\ err = [c \in Callers |-> ""]
    /\ spawnedBy = [c \in Callers |-> 0]
    /\ found = [c \in Callers |-> ""]
    /\ cleanup_pc = "idle"
    /\ cleanup_k = 0
    /\ cleanups = 0
    /\ cleanup_err = FALSE
    /\ overlapped = FALSE
    /\ faults = FALSE
    /\ hs_failed = FALSE

(***************************************************************************)
(* The tool handlers: argument validation, then one upstream request.      *)
(* A string is a sequence of characters; an arguments mapping is a function *)
(* whose domain is the set of argument names present.                      *)
(***************************************************************************)

\* Cap on the length of an argument string.
MaxLen == 2

Chars == {" ", "\t", "7"}
Strings == UNION {[1..n -> Chars] : n \in 0..MaxLen}
\* The numbers tried as coordinates and radii: the limits of the ranges and
\* their neighbours.
NumSamples == {-200, -181, -180, -91, -90, -1, 0, 1, 7, 90, 91, 95, 180, 181, 250, 251, 300}

\* A float: a number, or one of the values float() also yields, nan and
\* the two infinities (sign 1 or -1).
Num(v) == [cls |-> "num", v |-> v]
NaN == [cls |-> "nan", v |-> 0]
Inf(sign) == [cls |-> "inf", v |-> sign]
Floats == {Num(v) : v \in NumSamples} \cup {NaN, Inf(1), Inf(-1)}

\* a <= b and a > b on floats: every comparison with nan is false.
Le(a, b) ==
    IF a.cls = "nan" \/ b.cls = "nan" THEN FALSE
    ELSE IF a.cls = "inf" /\ b.cls = "inf" THEN a.v <= b.v
    ELSE IF a.cls = "inf" THEN a.v < 0
    ELSE IF b.cls = "inf" THEN b.v > 0
    ELSE a.v <= b.v
Gt(a, b) == a.cls # "nan" /\ b.cls # "nan" /\ ~Le(a, b)

DigitChar(d) ==
    CASE d = 0 -> "0" [] d = 1 -> "1" [] d = 2 -> "2" [] d = 3 -> "3" [] d = 4 -> "4"
      [] d = 5 -> "5" [] d = 6 -> "6" [] d = 7 -> "7" [] d = 8 -> "8" [] d = 9 -> "9"

RECURSIVE DecStr(_)
DecStr(n) == IF n < 10 THEN <<DigitChar(n)>> ELSE Append(DecStr(n \div 10), DigitChar(n % 10))

\* The text a client writes for a float.
Literal(f) ==
    IF f.cls = "nan" THEN <<"n", "a", "n">>
    ELSE IF f.cls = "inf" THEN (IF f.v < 0 THEN <<"-">> ELSE <<>>) \o <<"i", "n", "f">>
    ELSE IF f.v < 0 THEN <<"-">> \o DecStr(-f.v) ELSE DecStr(f.v)

\* The argument strings tried: all short strings, one that is no number, and
\* the texts of the floats.
ArgStrings == Strings \cup {<<"x">>} \cup {Literal(f) : f \in Floats}

IsSpace(ch) == ch \in {" ", "\t", "\n", "\r"}
IsDigit(ch) == ch \in {"0", "1", "2", "3", "4", "5", "6", "7", "8", "9"}

RECURSIVE LStrip(_)
LStrip(s) == IF s # <<>> /\ IsSpace(Head(s)) THEN LStrip(Tail(s)) ELSE s

RECURSIVE RStrip(_)
RStrip(s) ==
    IF s # <<>> /\ IsSpace(s[Len(s)]) THEN RStrip(SubSeq(s, 1, Len(s) - 1)) ELSE s

\* Variant of Strip that returns the string unchanged.
StripNothing(s) == s

\* str.strip()
Strip(s) == RStrip(LStrip(s))

DigitVal(ch) ==
    CASE ch = "0" -> 0 [] ch = "1" -> 1 [] ch = "2" -> 2 [] ch = "3" -> 3
      [] ch = "4" -> 4 [] ch = "5" -> 5 [] ch = "6" -> 6 [] ch = "7" -> 7
      [] ch = "8" -> 8 [] ch = "9" -> 9

RECURSIVE DecVal(_)
DecVal(s) ==
    IF s = <<>> THEN 0
    ELSE 10 * DecVal(SubSeq(s, 1, Len(s) - 1)) + DigitVal(s[Len(s)])

\* A string with its sign removed, and the sign.
Unsigned(t) == IF t # <<>> /\ Head(t) \in {"-", "+"} THEN Tail(t) ELSE t
Sign(t) == IF t # <<>> /\ Head(t) = "-" THEN -1 ELSE 1

\* float(s) on the strings of the model: surrounding whitespace is ignored;
\* an optional sign followed by a non-empty run of digits is a number, by nan
\* is nan, by inf is an infinity; anything else raises ValueError.
FloatOK(s) ==
    LET u == Unsigned(Strip(s))
    IN \/ u # <<>> /\ \A i \in 1..Len(u) : IsDigit(u[i])
       \/ u \in {<<"n", "a", "n">>, <<"i", "n", "f">>}
FloatVal(s) ==
    LET t == Strip(s)
        u == Unsigned(t)
    IN IF u = <<"n", "a", "n">> THEN NaN
       ELSE IF u = <<"i", "n", "f">> THEN Inf(Sign(t))
       ELSE Num(Sign(t) * DecVal(u))

LatMax == 90
LonMax == 180
RadiusMax == 250

StringTools ==
    {"aircraft_by_hex", "aircraft_by_callsign", "aircraft_by_registration",
     "aircraft_by_type", "aircraft_by_squawk"}
NoArgTools == {"military_aircraft", "ladd_aircraft", "pia_aircraft"}
ServerTools == StringTools \cup NoArgTools \cup {"aircraft_near_position", "no_such_tool"}

\* The argument each string tool requires.
ArgKey(t) ==
    CASE t = "aircraft_by_hex" -> "hex_id"
      [] t = "aircraft_by_callsign" -> "callsign"
      [] t = "aircraft_by_registration" -> "reg"
      [] t = "aircraft_by_type" -> "icao_type"
      [] t = "aircraft_by_squawk" -> "squawk_code"

Keys(t) ==
    IF t \in StringTools THEN {ArgKey(t)}
    ELSE IF t = "aircraft_near_position" THEN {"latitude", "longitude", "radius"}
    ELSE {}

\* The upstream path prefix of each tool.
Endpoint(t) ==
    CASE t = "aircraft_by_hex" -> "/hex"
      [] t = "aircraft_by_callsign" -> "/callsign"
      [] t = "aircraft_by_registration" -> "/reg"
      [] t = "aircraft_by_type" -> "/type"
      [] t = "aircraft_by_squawk" -> "/squawk"
      [] t = "aircraft_near_position" -> "/point"
      [] t = "military_aircraft" -> "/mil"
      [] t = "ladd_aircraft" -> "/ladd"
      [] t = "pia_aircraft" -> "/pia"

\* The text each tool returns when its required argument is blank.
RequiredText(t) ==
    CASE t = "aircraft_by_hex" -> "Error: Hex ID is required"
      [] t = "aircraft_by_callsign" -> "Error: Callsign is required"
      [] t = "aircraft_by_registration" -> "Error: Registration is required"
      [] t = "aircraft_by_type" -> "Error: ICAO type code is required"
      [] t = "aircraft_by_squawk" -> "Error: Squawk code is required"
      [] t = "aircraft_near_position" -> "Error: Latitude and longitude are required"

\* dict.get(key, default)
Get(args, key, default) == IF key \in DOMAIN args THEN args[key] ELSE default

\* What a handler does before its first await: it returns a text, or it
\* asks the upstream API for a path.
Text(t) == [kind |-> "text", text |-> t, ep |-> "", arg |-> <<>>]
Unbound == [kind |-> "unbound", text |-> "", ep |-> "", arg |-> <<>>]
Request(ep, arg) == [kind |-> "request", text |-> "", ep |-> ep, arg |-> arg]

\* `if radius_val > 250` and `if radius_val <= 0`: the text returned, "" if none.
RadiusError(radius_val) ==
    IF Gt(radius_val, Num(RadiusMax)) THEN "Error: Radius cannot exceed 250 nm"
    ELSE IF Le(radius_val, Num(0)) THEN "Error: Radius must be positive"
    ELSE ""

\* The four range checks of aircraft_near_position, in the order of the code,
\* and the upstream request that follows them.
RangeCheck(lat_val, lon_val, radius_val) ==
    IF ~(Le(Num(-LatMax), lat_val) /\ Le(lat_val, Num(LatMax)))
    THEN Text("Error: Latitude must be between -90 and 90")
    ELSE IF ~(Le(Num(-LonMax), lon_val) /\ Le(lon_val, Num(LonMax)))
    THEN Text("Error: Longitude must be between -180 and 180")
    ELSE IF RadiusError(radius_val) # ""
    THEN Text(RadiusError(radius_val))
    ELSE Request(Endpoint("aircraft_near_position"), <<lat_val, lon_val, radius_val>>)

\* The aircraft_near_position branch of handle_call_tool.
near_position(args) ==
    LET latitude == Get(args, "latitude", <<>>)
        longitude == Get(args, "longitude", <<>>)
        radius == Get(args, "radius", <<"2", "5", "0">>)
    IN IF Strip(latitude) = <<>> \/ Strip(longitude) = <<>>
       THEN Text(RequiredText("aircraft_near_position"))
       ELSE IF \/ ~FloatOK(latitude)
               \/ ~FloatOK(longitude)
               \/ (Strip(radius) # <<>> /\ ~FloatOK(radius))
       THEN Text("Error: Invalid coordinate format")
       ELSE RangeCheck(FloatVal(latitude), FloatVal(longitude),
                       IF Strip(radius) # <<>> THEN FloatVal(radius) ELSE Num(250))

\* airplane_server.handle_call_tool up to its upstream request.
handle_call_tool(name, args) ==
    IF name \in StringTools
    THEN LET v == Get(args, ArgKey(name), <<>>)
         IN IF Strip(v) = <<>> THEN Text(RequiredText(name))
            ELSE Request(Endpoint(name), v)
    ELSE IF name = "aircraft_near_position" THEN near_position(args)
    ELSE IF name \in NoArgTools THEN Request(Endpoint(name), <<>>)
    ELSE Text("Unknown tool")

\* The five string tools of airplane_server_fastmcp up to their upstream
\* request.  Each declares its parameter without a default, so the body runs
\* only with the parameter bound: a call that lacks it never enters the body.
fastmcp_tool(name, args) ==
    IF ArgKey(name) \notin DOMAIN args THEN Unbound
    ELSE LET v == args[ArgKey(name)]
         IN IF Strip(v) = <<>> THEN Text(RequiredText(name))
            ELSE Request(Endpoint(name), v)

\* aircraft_near_position of airplane_server_fastmcp up to its upstream
\* request: latitude and longitude are floats without a default, radius is a
\* float that defaults to 250.
fastmcp_near_position(args) ==
    IF ~({"latitude", "longitude"} \subseteq DOMAIN args) THEN Unbound
    ELSE RangeCheck(args["latitude"], args["longitude"], Get(args, "radius", Num(250)))

\* The tool functions of airplane_server_fastmcp up to their upstream request.
fastmcp_call(name, args) ==
    IF name \in StringTools THEN fastmcp_tool(name, args)
    ELSE IF name = "aircraft_near_position" THEN fastmcp_near_position(args)
    ELSE Request(Endpoint(name), <<>>)

\* The handler runs up to its first await.
CallTool ==
    /\ tpc = "ready"
    /\ LET r == IF tvariant = "server" THEN handle_call_tool(tname, targs)
                ELSE fastmcp_call(tname, targs)
       IN IF r.kind = "text"
          THEN /\ tresult' = r.text
               /\ tpc' = "returned"
               /\ UNCHANGED tupstream
          ELSE IF r.kind = "unbound"
          THEN /\ tpc' = "raised"
               /\ UNCHANGED <<tresult, tupstream>>
          ELSE /\ tupstream' = Append(tupstream, [ep |-> r.ep, arg |-> r.arg])
               /\ tpc' = "upstream"
               /\ UNCHANGED tresult
    /\ UNCHANGED <<tvariant, tname, targs, toutcome>>
    /\ UNCHANGED notT

\* What make_api_request does: it returns the JSON; raise_for_status raises on
\* a non-2xx status; the client raises on a transport failure or after the
\* 15 s timeout; response.json() raises a ValueError on a body that is no JSON.
UpstreamFailures == {"http_error", "transport_error", "timeout", "invalid_json"}
UpstreamOutcomes == {"ok"} \cup UpstreamFailures

\* Whether the tool's code has an `except Exception` around its upstream
\* request: all of handle_call_tool, and aircraft_near_position of fastmcp.
Catches(variant, name) == variant = "server" \/ name = "aircraft_near_position"

\* make_api_request returns or raises, and the handler runs to its end.  In
\* handle_call_tool the request of aircraft_near_position sits inside the
\* `except ValueError` of the coordinate parsing.
UpstreamReply(o) ==
    /\ tpc = "upstream"
    /\ toutcome' = o
    /\ IF o = "ok"
       THEN tresult' = "Found aircraft" /\ tpc' = "returned"
       ELSE IF tvariant = "server" /\ tname = "aircraft_near_position" /\ o = "invalid_json"
       THEN tresult' = "Error: Invalid coordinate format" /\ tpc' = "returned"
       ELSE IF Catches(tvariant, tname)
       THEN tresult' = "Error: upstream failure" /\ tpc' = "returned"
       ELSE tresult' = "" /\ tpc' = "raised"
    /\ UNCHANGED <<tvariant, tname, targs, tupstream>>
    /\ UNCHANGED notT

\* No tool invocation: the state of the tool variables while the bridge runs.
ToolIdle ==
    /\ tvariant = "server"
    /\ tname = ""
    /\ targs = <<>>
    /\ tpc = "idle"
    /\ tresult = ""
    /\ tupstream = <<>>
    /\ toutcome = ""

\* The tools of airplane_server_fastmcp.
FastmcpTools == StringTools \cup NoArgTools \cup {"aircraft_near_position"}

\* The arguments mappings tried for a tool: any subset of its arguments, each
\* a string, or a float where the fastmcp tool declares one.
ArgsFor(variant, t) ==
    IF variant = "fastmcp" /\ t = "aircraft_near_position"
    THEN UNION {[D -> Floats] : D \in SUBSET Keys(t)}
    ELSE UNION {[D -> ArgStrings] : D \in SUBSET Keys(t)}

ToolNext ==
    \/ CallTool
    \/ \E o \in UpstreamOutcomes : UpstreamReply(o)

Init == BridgeInit /\ ToolIdle /\ SseIdle /\ AdapterIdle /\ FacadeIdle /\ CronIdle

Next ==
    \/ Startup
    \/ \E c \in Callers : StartCall(c)
    \/ \E c \in Callers : SpawnDone(c)
    \/ \E c \in Callers : SpawnFail(c)
    \/ \E c \in Callers : Resume(c)
    \/ \E k \in Children, good \in BOOLEAN : ChildRespond(k, good)
    \/ \E k \in Children : ChildHang(k)
    \/ \E k \in Children : ChildExit(k)
    \/ Cleanup
    \/ CleanupReturn

Spec == Init /\ [][Next]_vars

\* The event loop runs every runnable coroutine, a spawn in progress ends, and
\* a child that is alive and has not hung answers the requests it was sent.
\* A child sent SIGTERM exits.  Nothing else obliges a child to exit, or a
\* client to send a request.
Fairness ==
    /\ \A c \in Callers : WF_vars(Resume(c))
    /\ \A c \in Callers : WF_vars(SpawnDone(c) \/ SpawnFail(c))
    /\ \A k \in Children : WF_vars(\E good \in BOOLEAN : ChildRespond(k, good))
    /\ \A k \in Children : WF_vars(sigterm[k] > 0 /\ ChildExit(k))
    /\ WF_vars(CleanupReturn)

FairSpec == Spec /\ Fairness

\* One invocation of one tool, for every tool and every arguments mapping.
ToolInit ==
    /\ BridgeInit
    /\ SseIdle
    /\ AdapterIdle
    /\ FacadeIdle
    /\ CronIdle
    /\ tvariant \in {"server", "fastmcp"}
    /\ tname \in (IF tvariant = "server" THEN ServerTools ELSE FastmcpTools)
    /\ targs \in ArgsFor(tvariant, tname)
    /\ tpc = "ready"
    /\ tresult = ""
    /\ tupstream = <<>>
    /\ toutcome = ""

ToolSpec == ToolInit /\ [][ToolNext]_vars

(***************************************************************************)
(* The /sse connection: the event generator of sse_endpoint.  It calls     *)
(* send_request as the caller "sse".                                       *)
(***************************************************************************)

\* Cap on the heartbeats of one connection.
MaxBeats == 2

Event(ev, id, msg) == [ev |-> ev, id |-> id, msg |-> msg]

NumBeats == Cardinality({i \in 1..Len(events) : events[i].ev = "heartbeat"})

\* A client connects: the generator yields the `connected` event.
SseConnect ==
    /\ sse_pc = "idle"
    /\ events' = Append(events, Event("connected", 0, ""))
    /\ sse_pc' = "connected"
    /\ UNCHANGED <<disconnected, observed>>
    /\ UNCHANGED notS

\* `await mcp_wrapper.send_request("tools/list")` begins.
SseList ==
    /\ sse_pc = "connected"
    /\ SendRequest("sse")
    /\ sse_pc' = "calling"
    /\ UNCHANGED <<events, disconnected, observed>>
    /\ UNCHANGED <<tvars, avars, hvars, cvars>>

\* Variant of SseCallEnds that goes on to the heartbeat loop after the
\* `error` event.
SseCallEndsContinuing ==
    /\ sse_pc = "calling"
    /\ pc["sse"] \in {"done", "failed"}
    /\ IF pc["sse"] = "done"
       THEN events' = Append(events, Event("tools", resp["sse"], ""))
       ELSE events' = Append(events, Event("error", 0, err["sse"]))
    /\ sse_pc' = "loop"
    /\ UNCHANGED <<disconnected, observed>>
    /\ UNCHANGED notS

\* send_request returned: the generator yields the `tools` event with the
\* response; or it raised: the generator yields the `error` event and ends.
SseCallEnds ==
    /\ sse_pc = "calling"
    /\ pc["sse"] \in {"done", "failed"}
    /\ IF pc["sse"] = "done"
       THEN /\ events' = Append(events, Event("tools", resp["sse"], ""))
            /\ sse_pc' = "loop"
       ELSE /\ events' = Append(events, Event("error", 0, err["sse"]))
            /\ sse_pc' = "closed"
    /\ UNCHANGED <<disconnected, observed>>
    /\ UNCHANGED notS

\* One turn of `while True`: request.is_disconnected() raises, and the
\* generator yields `error` and ends; or it returns True, and the generator
\* ends; or it returns False, and the generator yields a `heartbeat`.
SsePoll(raises) ==
    /\ sse_pc = "loop"
    /\ IF raises
       THEN /\ events' = Append(events, Event("error", 0, "poll"))
            /\ sse_pc' = "closed"
            /\ UNCHANGED observed
       ELSE IF disconnected
       THEN /\ observed' = TRUE
            /\ sse_pc' = "closed"
            /\ UNCHANGED events
       ELSE /\ NumBeats < MaxBeats
            /\ events' = Append(events, Event("heartbeat", 0, ""))
            /\ sse_pc' = "sleep"
            /\ UNCHANGED observed
    /\ UNCHANGED disconnected
    /\ UNCHANGED notS

\* asyncio.sleep(30) returned.
SseWake ==
    /\ sse_pc = "sleep"
    /\ sse_pc' = "loop"
    /\ UNCHANGED <<events, disconnected, observed>>
    /\ UNCHANGED notS

\* The client goes away.
ClientDisconnect ==
    /\ sse_pc # "idle"
    /\ ~disconnected
    /\ disconnected' = TRUE
    /\ UNCHANGED <<sse_pc, events, observed>>
    /\ UNCHANGED notS

\* One /sse connection, beside the /mcp/tools/call endpoint, the child and
\* the startup and shutdown hooks.
SseNext ==
    \/ SseConnect
    \/ SseList
    \/ SseCallEnds
    \/ \E raises \in BOOLEAN : SsePoll(raises)
    \/ SseWake
    \/ ClientDisconnect
    \/ Startup
    \/ StartCall("call")
    \/ \E c \in Callers : SpawnDone(c)
    \/ \E c \in Callers : SpawnFail(c)
    \/ \E c \in Callers : Resume(c)
    \/ \E k \in Children, good \in BOOLEAN : ChildRespond(k, good)
    \/ \E k \in Children : ChildHang(k)
    \/ \E k \in Children : ChildExit(k)
    \/ Cleanup
    \/ CleanupReturn

SseSpec == Init /\ [][SseNext]_vars

(***************************************************************************)
(* The endpoints of the SSE wrapper that call the bridge and answer with   *)
(* what it returned, as the caller "call".                                 *)
(***************************************************************************)

\* /mcp/tools/call and /mcp/tools/list: `return {"error": str(e)}, 500`.
McpEndpoints == {"/mcp/tools/call", "/mcp/tools/list"}
\* The endpoints under /api/aircraft that call one tool:
\* `return {"error": str(e)}`.
RestEndpoints ==
    {"/api/aircraft/search", "/api/aircraft/callsign", "/api/aircraft/flight",
     "/api/aircraft/registration", "/api/aircraft/hex", "/api/aircraft/type",
     "/api/aircraft/squawk", "/api/aircraft/military", "/api/aircraft/near"}
CityEndpoint == "/api/aircraft/near/city"
Endpoints == McpEndpoints \cup RestEndpoints \cup {CityEndpoint}

Cities == {"Rome", "Atlantis"}

\* The status of a response whose handler returns a value: no route sets a
\* status code, and the handlers return no Response object.
DefaultStatus == 200

\* geocode_city: a first result; an empty result list; an httpx.HTTPError
\* (status, transport, timeout); a result without usable coordinates.
GeoOutcomes == {"found", "empty", "http_error", "bad_data"}

\* A request arrives at an endpoint: the handler runs to its first await,
\* send_request, or geocode_city for the city endpoint.
AdapterRequest(ep, city) ==
    /\ a_pc \in {"idle", "answered"}
    /\ a_ep' = ep
    /\ a_city' = IF ep = CityEndpoint THEN city ELSE ""
    /\ a_geo' = ""
    /\ a_resp' = NoResponse
    /\ a_failed' = (a_failed \/ (a_pc = "answered" /\ pc["call"] = "failed" /\ a_called))
    /\ IF ep = CityEndpoint
       THEN /\ a_pc' = "geocoding"
            /\ a_called' = FALSE
            /\ UNCHANGED bvars
       ELSE /\ a_pc' = "calling"
            /\ a_called' = TRUE
            /\ SendRequest("call")
    /\ UNCHANGED <<tvars, svars, hvars, cvars>>

\* geocode_city returned or raised.  With coordinates the handler goes on to
\* call_tool; every exception is caught and answered as a returned dict:
\* HTTPException (404 for the empty list, 500 for an HTTPError) by
\* `except HTTPException`, anything else by `except Exception`.
GeocodeReply(o) ==
    /\ a_pc = "geocoding"
    /\ a_geo' = o
    /\ IF o = "found"
       THEN /\ a_pc' = "calling"
            /\ a_called' = TRUE
            /\ SendRequest("call")
            /\ UNCHANGED a_resp
       ELSE /\ a_pc' = "answered"
            /\ a_resp' = [status |-> DefaultStatus, body |-> "error_object",
                          msg |-> (CASE o = "empty" -> "City not found"
                                     [] o = "http_error" -> "Geocoding error"
                                     [] o = "bad_data" -> "exception"),
                          city |-> IF o = "empty" THEN a_city ELSE ""]
            /\ UNCHANGED a_called
            /\ UNCHANGED bvars
    /\ UNCHANGED <<a_ep, a_city, a_failed>>
    /\ UNCHANGED <<tvars, svars, hvars, cvars>>

\* send_request returned, and the handler returns the response; or it raised,
\* and the handler returns {"error": str(e)}, as the first element of a pair
\* with 500 in the two /mcp endpoints.  A returned pair is a JSON array.
AdapterRespond ==
    /\ a_pc = "calling"
    /\ pc["call"] \in {"done", "failed"}
    /\ a_pc' = "answered"
    /\ a_resp' = IF pc["call"] = "done"
                 THEN [status |-> DefaultStatus, body |-> "result", msg |-> "", city |-> ""]
                 ELSE [status |-> DefaultStatus,
                       body |-> IF a_ep \in McpEndpoints THEN "error_pair" ELSE "error_object",
                       msg |-> err["call"], city |-> ""]
    /\ UNCHANGED <<a_ep, a_city, a_geo, a_called, a_failed>>
    /\ UNCHANGED notA

\* The adapter serving one request at a time, the child, and the startup hook.
AdapterNext ==
    \/ \E ep \in Endpoints, city \in Cities : AdapterRequest(ep, city)
    \/ \E o \in GeoOutcomes : GeocodeReply(o)
    \/ AdapterRespond
    \/ Startup
    \/ \E c \in Callers : SpawnDone(c)
    \/ \E c \in Callers : SpawnFail(c)
    \/ \E c \in Callers : Resume(c)
    \/ \E k \in Children, good \in BOOLEAN : ChildRespond(k, good)
    \/ \E k \in Children : ChildHang(k)
    \/ \E k \in Children : ChildExit(k)

AdapterSpec == Init /\ [][AdapterNext]_vars

(***************************************************************************)
(* The direct HTTP facade of src/http_wrapper.py: an application of its    *)
(* own, which imports airplane_server and calls make_api_request.          *)
(***************************************************************************)

\* The facade endpoints and the upstream path prefix each one asks for.
FacadeEndpoints ==
    {"/aircraft/hex", "/aircraft/callsign", "/aircraft/reg", "/aircraft/type",
     "/aircraft/squawk", "/aircraft/point"}

FacadePath(ep) ==
    CASE ep = "/aircraft/hex" -> "/hex"
      [] ep = "/aircraft/callsign" -> "/callsign"
      [] ep = "/aircraft/reg" -> "/reg"
      [] ep = "/aircraft/type" -> "/type"
      [] ep = "/aircraft/squawk" -> "/squawk"
      [] ep = "/aircraft/point" -> "/point"

\* The query values tried: a string field, or the three floats of PointQuery.
FacadeArgs(ep) ==
    IF ep = "/aircraft/point"
    THEN {<<lat, lon, Num(250)>> : lat \in {Num(7), Num(95)}, lon \in {Num(7), Num(-200)}}
    ELSE Strings

\* The JSON documents the upstream API answers with.
Payloads == {"json_a", "json_b"}

\* The status of the HTTPException every facade handler raises.
BadGateway == 502

\* A request arrives with a valid body: the handler awaits make_api_request.
FacadeRequest(ep, arg) ==
    /\ h_pc \in {"idle", "answered"}
    /\ h_pc' = "upstream"
    /\ h_ep' = ep
    /\ h_arg' = arg
    /\ h_upstream' = <<[ep |-> FacadePath(ep), arg |-> arg]>>
    /\ h_reply' = NoReply
    /\ h_resp' = NoFacadeResponse
    /\ UNCHANGED notH

\* Variant of FacadeReply that asks the upstream API again after a failure.
FacadeReplyRetrying(o, data) ==
    /\ h_pc = "upstream"
    /\ h_reply' = [o |-> o, data |-> IF o = "ok" THEN data ELSE "", msg |-> IF o = "ok" THEN "" ELSE o]
    /\ IF o = "ok"
       THEN /\ h_resp' = [status |-> DefaultStatus, body |-> data, detail |-> ""]
            /\ h_pc' = "answered"
            /\ UNCHANGED h_upstream
       ELSE /\ Len(h_upstream) < 2
            /\ h_upstream' = Append(h_upstream, h_upstream[1])
            /\ UNCHANGED <<h_resp, h_pc>>
    /\ UNCHANGED <<h_ep, h_arg>>
    /\ UNCHANGED notH

\* make_api_request returned the JSON, and the handler returns it; or it
\* raised, and the handler raises HTTPException(502, detail=str(e)).
FacadeReply(o, data) ==
    /\ h_pc = "upstream"
    /\ h_pc' = "answered"
    /\ h_reply' = [o |-> o, data |-> IF o = "ok" THEN data ELSE "", msg |-> IF o = "ok" THEN "" ELSE o]
    /\ h_resp' = IF o = "ok"
                 THEN [status |-> DefaultStatus, body |-> data, detail |-> ""]
                 ELSE [status |-> BadGateway, body |-> "", detail |-> o]
    /\ UNCHANGED <<h_ep, h_arg, h_upstream>>
    /\ UNCHANGED notH

FacadeNext ==
    \/ \E ep \in FacadeEndpoints : \E arg \in FacadeArgs(ep) : FacadeRequest(ep, arg)
    \/ \E o \in UpstreamOutcomes, data \in Payloads : FacadeReply(o, data)

FacadeSpec == Init /\ [][FacadeNext]_vars

(***************************************************************************)
(* The keep-alive loop cron_job_task, the hooks that start and stop it,    *)
(* and the endpoints that read or write its globals.                       *)
(***************************************************************************)

\* Cap on cron_run_count.
MaxRuns == 2

\* asyncio.sleep(840) and asyncio.sleep(60)
Interval == 840
RetryDelay == 60

CronEnded == cron_pc \in {"returned", "cancelled"}
CronSleeping == cron_pc \in {"sleep_interval", "sleep_retry"}

\* The second startup_event: it stamps cron_last_run and creates the task,
\* which runs to its first await, asyncio.sleep(840).
CronStartup ==
    /\ cron_pc = "none"
    /\ shut_pc = "idle"
    /\ cron_last_run' = now
    /\ cron_pc' = "sleep_interval"
    /\ cron_wake' = now + Interval
    /\ UNCHANGED <<now, cron_cancel, cron_run_count, failed_at, shut_pc, c_view>>
    /\ UNCHANGED notC

\* Time passes while the loop sleeps: a minute, or up to the end of the sleep.
Advance(t) ==
    /\ CronSleeping
    /\ now < t /\ t <= cron_wake
    /\ now' = t
    /\ UNCHANGED <<cron_pc, cron_wake, cron_cancel, cron_run_count, cron_last_run,
                   failed_at, shut_pc, c_view>>
    /\ UNCHANGED notC

\* Variant of CronIterate in which an exception ends the task.
CronIterateDying(fails) ==
    /\ cron_pc = "sleep_interval"
    /\ now = cron_wake
    /\ ~cron_cancel
    /\ cron_run_count < MaxRuns
    /\ cron_run_count' = cron_run_count + 1
    /\ cron_last_run' = now
    /\ IF fails
       THEN /\ failed_at' = now
            /\ cron_pc' = "returned"
            /\ UNCHANGED cron_wake
       ELSE /\ failed_at' = NoTime
            /\ cron_pc' = "sleep_interval"
            /\ cron_wake' = now + Interval
    /\ UNCHANGED <<now, cron_cancel, shut_pc, c_view>>
    /\ UNCHANGED notC

\* asyncio.sleep(840) returned: the loop counts the run and stamps it, then
\* prints and calls health_check (which awaits nothing).  If that raises, the
\* handler prints and awaits asyncio.sleep(60); if not, the loop is back at
\* asyncio.sleep(840).
CronIterate(fails) ==
    /\ cron_pc = "sleep_interval"
    /\ now = cron_wake
    /\ ~cron_cancel
    /\ cron_run_count < MaxRuns
    /\ cron_run_count' = cron_run_count + 1
    /\ cron_last_run' = now
    /\ IF fails
       THEN /\ failed_at' = now
            /\ cron_pc' = "sleep_retry"
            /\ cron_wake' = now + RetryDelay
       ELSE /\ failed_at' = NoTime
            /\ cron_pc' = "sleep_interval"
            /\ cron_wake' = now + Interval
    /\ UNCHANGED <<now, cron_cancel, shut_pc, c_view>>
    /\ UNCHANGED notC

\* asyncio.sleep(60) returned: the loop is back at asyncio.sleep(840).
CronRetry ==
    /\ cron_pc = "sleep_retry"
    /\ now = cron_wake
    /\ ~cron_cancel
    /\ cron_pc' = "sleep_interval"
    /\ cron_wake' = now + Interval
    /\ UNCHANGED <<now, cron_cancel, cron_run_count, cron_last_run, failed_at, shut_pc,
                   c_view>>
    /\ UNCHANGED notC

\* CancelledError is raised in the pending sleep: inside the try the loop
\* breaks and the task returns; inside the handler it leaves the task.
CronCancelled ==
    /\ cron_cancel
    /\ CronSleeping
    /\ cron_pc' = IF cron_pc = "sleep_interval" THEN "returned" ELSE "cancelled"
    /\ UNCHANGED <<now, cron_wake, cron_cancel, cron_run_count, cron_last_run, failed_at,
                   shut_pc, c_view>>
    /\ UNCHANGED notC

\* The second shutdown_event up to `await cron_task`.
CronShutdown ==
    /\ shut_pc = "idle"
    /\ IF cron_pc # "none"
       THEN /\ cron_cancel' = (cron_cancel \/ ~CronEnded)
            /\ shut_pc' = "awaiting"
       ELSE /\ shut_pc' = "done"
            /\ UNCHANGED cron_cancel
    /\ UNCHANGED <<now, cron_pc, cron_wake, cron_run_count, cron_last_run, failed_at,
                   c_view>>
    /\ UNCHANGED notC

\* `await cron_task` returns, or raises the CancelledError the hook swallows.
CronShutdownReturn ==
    /\ shut_pc = "awaiting"
    /\ CronEnded
    /\ shut_pc' = "done"
    /\ UNCHANGED <<now, cron_pc, cron_wake, cron_cancel, cron_run_count, cron_last_run,
                   failed_at, c_view>>
    /\ UNCHANGED notC

\* POST /api/cron/trigger
trigger_cron_manually ==
    /\ shut_pc = "idle"
    /\ cron_run_count < MaxRuns
    /\ cron_run_count' = cron_run_count + 1
    /\ cron_last_run' = now
    /\ UNCHANGED <<now, cron_pc, cron_wake, cron_cancel, failed_at, shut_pc, c_view>>
    /\ UNCHANGED notC

\* GET /api/cron/status
get_cron_status ==
    /\ shut_pc = "idle"
    /\ c_view' = [kind |-> "status", active |-> (cron_pc # "none" /\ ~CronEnded),
                  last_run |-> cron_last_run, run_count |-> cron_run_count]
    /\ UNCHANGED <<now, cron_pc, cron_wake, cron_cancel, cron_run_count, cron_last_run,
                   failed_at, shut_pc>>
    /\ UNCHANGED notC

\* GET /health
health_check ==
    /\ shut_pc = "idle"
    /\ c_view' = [kind |-> "health", active |-> (process # NoProcess),
                  last_run |-> NoTime, run_count |-> 0]
    /\ UNCHANGED <<now, cron_pc, cron_wake, cron_cancel, cron_run_count, cron_last_run,
                   failed_at, shut_pc>>
    /\ UNCHANGED notC

CronNext ==
    \/ Startup
    \/ CronStartup
    \/ \E t \in {now + RetryDelay, cron_wake} : Advance(t)
    \/ \E fails \in BOOLEAN : CronIterate(fails)
    \/ CronRetry
    \/ CronCancelled
    \/ CronShutdown
    \/ CronShutdownReturn
    \/ trigger_cron_manually
    \/ get_cron_status
    \/ health_check

CronSpec == Init /\ [][CronNext]_vars

\* The event loop delivers a requested cancellation and resumes the hook.
CronFairSpec == CronSpec /\ WF_vars(CronCancelled) /\ WF_vars(CronShutdownReturn)

\* /health asked while the bridge runs: one caller of send_request, the
\* child, the hooks, and the endpoint.
HealthNext ==
    \/ Startup
    \/ StartCall("call")
    \/ SpawnDone("call")
    \/ SpawnFail("call")
    \/ Resume("call")
    \/ \E k \in Children : \E good \in BOOLEAN : ChildRespond(k, good)
    \/ \E k \in Children : ChildExit(k)
    \/ Cleanup
    \/ CleanupReturn
    \/ health_check

HealthSpec == Init /\ [][HealthNext]_vars

(***************************************************************************)
(* Properties                                                              *)
(***************************************************************************)

ToolMethods == {"tools/list", "tools/call"}

NumWritten(M) == Cardinality({i \in 1..Len(wire) : wire[i].m \in M})

Quiet == \A c \in Callers : ~Active(pc[c])

\* C1: on a fresh bridge, after any number N >= 1 of sequential send_request
\* calls, with a child that stays alive and answers every request, exactly one
\* `initialize` and exactly one `notifications/initialized` have been written.
C1_HandshakeOnce ==
    (~overlapped /\ ~faults /\ Quiet /\ NumWritten(ToolMethods) >= 1)
        => /\ NumWritten({"initialize"}) = 1
           /\ NumWritten({"notifications/initialized"}) = 1

\* Two sequential calls have completed on one healthy child.
C1_Witness ==
    /\ ~overlapped /\ ~faults /\ Quiet
    /\ NumWritten(ToolMethods) >= 2
    /\ \A c \in Callers : pc[c] = "done"

C7_IdsIncrease ==
    /\ \A i, j \in 1..Len(wire) :
          (i < j /\ IsRequest(wire[i]) /\ IsRequest(wire[j]))
              => wire[i].id < wire[j].id
    /\ \A i \in 1..Len(wire) :
          IsRequest(wire[i]) <=> wire[i].m # "notifications/initialized"

\* Requests on two children, after overlapping callers and a failed call.
C7_Witness ==
    /\ overlapped
    /\ \E c \in Callers : pc[c] = "failed"
    /\ \E i, j \in 1..Len(wire) :
          /\ i < j /\ wire[i].k = 1 /\ wire[j].k = 2
          /\ IsRequest(wire[i]) /\ IsRequest(wire[j])
    /\ NumWritten({"notifications/initialized"}) >= 1

\* Requests written to child k whose response line has not been read back:
\* those the child has not answered yet and the answers still in the reader.
InFlight(k) ==
    LET L == Log(wire, k)
    IN Cardinality({i \in (rpos[k] + 1)..Len(L) : IsRequest(L[i])}) + Len(outbuf[k])

\* C2: concurrent send_request invocations on one bridge all complete, and each
\* caller receives the response whose id equals the id of its own request.
C2_OwnResponse ==
    \A c \in Callers :
        /\ pc[c] = "done" => resp[c] = req[c]
        /\ pc[c] = "failed" => (faults /\ err[c] # "runtime")

\* C4: at every moment at most one request line has been written to a child
\* without its response line having been read back, whatever the callers do.
C4_OneInFlight == \A k \in Children : InFlight(k) <= 1

\* C5: when the child has exited between two sequential calls, the next call
\* spawns a new child, resets the initialized flag, and the first three lines
\* the new child is sent are `initialize`, `notifications/initialized` and then
\* the caller's own request;
\* when the spawn succeeds and the new child answers, the caller gets the
\* response to its request and no error.
C5_Respawn ==
    ~overlapped =>
        \A c \in Callers :
            (found[c] = "exited" /\ pc[c] # "spawn" /\ err[c] # "spawn") =>
                LET k == spawnedBy[c]
                    L == Log(wire, k)
                IN /\ k # 0
                   /\ Len(L) >= 1
                   /\ L[1].m = "initialize"
                   /\ req[c] # 0 =>
                        /\ Len(L) >= 3
                        /\ L[2].m = "notifications/initialized"
                        /\ L[3] = [k |-> k, m |-> Method(c), id |-> req[c]]
                   /\ pc[c] = "done" => resp[c] = req[c]
                   /\ pc[c] = "failed" => (exited[k] \/ err[c] = "json")

\* A sequential call that found the first child dead has returned a response
\* from the second child.
C5_Witness ==
    /\ ~overlapped
    /\ \E c \in Callers :
          /\ found[c] = "exited" /\ spawnedBy[c] = 2 /\ pc[c] = "done"
          /\ ~exited[2]
          /\ NumWritten(ToolMethods) >= 2

\* C8: when the line read for a suspended call is not valid JSON, the call
\* fails with an error, and in that step the bridge writes no line, spawns
\* and adopts no process and reads no second line.
C8_NoRetry ==
    [][\A c \in Callers :
          (/\ Resume(c)
           /\ outbuf[rdr[c]] # <<>>
           /\ Head(outbuf[rdr[c]]) = BadLine)
          => /\ pc'[c] = "failed"
             /\ err'[c] = "json"
             /\ wire' = wire
             /\ nspawn' = nspawn
             /\ process' = process
             /\ outbuf'[rdr[c]] = Tail(outbuf[rdr[c]])]_vars

\* A call failed on a malformed answer to its own request.
C8_Witness ==
    \E c \in Callers : pc[c] = "failed" /\ err[c] = "json" /\ req[c] # 0

\* C9: cleanup() never raises, asks a child to terminate at most once and only
\* while it runs, and has returned only when the child it terminated exited;
\* with no child, or an exited child, or called again, it does nothing.
C9_CleanupSafe ==
    /\ ~cleanup_err
    /\ \A k \in Children :
          /\ sigterm[k] <= 1
          /\ sigterm[k] = 1 => (exited[k] \/ (cleanup_pc = "wait" /\ cleanup_k = k))
    /\ nspawn = 0 => cleanup_pc = "idle"

\* cleanup() terminated a running child, returned, and was called again.
C9_Witness ==
    /\ cleanups = 2
    /\ \E k \in Children : sigterm[k] = 1 /\ exited[k]

\* cleanup() ran twice on a bridge that never had a child.
C9_WitnessNoChild == cleanups = 2 /\ nspawn = 0

\* C6: every send_request invocation eventually completes, by returning a
\* response or by failing with an error, also when the child stays alive and
\* never writes a response line.
C6_Completes == \A c \in Callers : Active(pc[c]) ~> ~Active(pc[c])

\* An argument that is missing, empty or made of whitespace only.
Blank(args, key) ==
    key \notin DOMAIN args \/ \A i \in 1..Len(args[key]) : IsSpace(args[key][i])

\* The tool invoked has a required string argument (the coordinates of the
\* fastmcp aircraft_near_position are floats).
HasRequiredString ==
    tname \in StringTools \/ (tvariant = "server" /\ tname = "aircraft_near_position")

RequiredArgs(t) ==
    IF t = "aircraft_near_position" THEN {"latitude", "longitude"} ELSE {ArgKey(t)}

NoFloat == [cls |-> "none", v |-> 0]

\* The float an argument of the invocation denotes.
Given(key) ==
    IF key \notin DOMAIN targs THEN NoFloat
    ELSE IF tvariant = "fastmcp" THEN targs[key]
    ELSE IF FloatOK(targs[key]) THEN FloatVal(targs[key]) ELSE NoFloat

ValidLat(f) == f.cls = "num" /\ -90 <= f.v /\ f.v <= 90
ValidLon(f) == f.cls = "num" /\ -180 <= f.v /\ f.v <= 180
ValidRadius(f) == f.cls = "num" /\ 0 < f.v /\ f.v <= 250

\* The invocation returned the text and asked the upstream API nothing.
Rejected(text) == tpc = "returned" /\ tresult = text /\ tupstream = <<>>

NearInvoked == tname = "aircraft_near_position" /\ tpc \notin {"idle", "ready"}

\* The cases of C11 about the named inputs: lat=95, lon=-200, radius=300 and
\* radius=0 each return their own text and ask the upstream API nothing; the
\* limits lat=90, lon=-180, radius=250 pass and make the one request.
NamedInputs ==
    LET lat == Given("latitude")
        lon == Given("longitude")
        rad == Given("radius")
    IN /\ (lat = Num(95) /\ ValidLon(lon) /\ ValidRadius(rad))
            => Rejected("Error: Latitude must be between -90 and 90")
       /\ (lon = Num(-200) /\ ValidLat(lat) /\ ValidRadius(rad))
            => Rejected("Error: Longitude must be between -180 and 180")
       /\ (rad = Num(300) /\ ValidLat(lat) /\ ValidLon(lon))
            => Rejected("Error: Radius cannot exceed 250 nm")
       /\ (rad = Num(0) /\ ValidLat(lat) /\ ValidLon(lon))
            => Rejected("Error: Radius must be positive")
       /\ (lat = Num(90) /\ lon = Num(-180) /\ rad = Num(250))
            => tupstream = <<[ep |-> "/point", arg |-> <<lat, lon, rad>>]>>

\* C11: for aircraft_near_position, lat=95, lon=-200, radius=300 and radius=0
\* each return an error text of their own and make no upstream request, the
\* limits lat=90, lon=-180, radius=250 make exactly one request to /point, and
\* the upstream API is reached only with -90 <= lat <= 90, -180 <= lon <= 180
\* and 0 < radius <= 250.
C11_RangeValidation ==
    NearInvoked =>
        /\ NamedInputs
        /\ tupstream # <<>> =>
              /\ ValidLat(tupstream[1].arg[1])
              /\ ValidLon(tupstream[1].arg[2])
              /\ ValidRadius(tupstream[1].arg[3])

\* C11 without its failing case: the same, except that a radius of nan also
\* reaches the upstream API.
C11_RangeValidationButNaN ==
    NearInvoked =>
        /\ NamedInputs
        /\ tupstream # <<>> =>
              /\ ValidLat(tupstream[1].arg[1])
              /\ ValidLon(tupstream[1].arg[2])
              /\ ValidRadius(tupstream[1].arg[3]) \/ tupstream[1].arg[3] = NaN


\* The texts of the handlers that begin with the error marker.
ErrorTexts ==
    {RequiredText(t) : t \in StringTools \cup {"aircraft_near_position"}}
    \cup {"Error: Latitude must be between -90 and 90",
          "Error: Longitude must be between -180 and 180",
          "Error: Radius cannot exceed 250 nm", "Error: Radius must be positive",
          "Error: Invalid coordinate format", "Unknown tool", "Error: upstream failure"}

\* C12: for every tool of both variants and every upstream failure (non-2xx
\* status, transport failure, timeout), the invocation returns a text that
\* begins with the error marker; the failure never leaves the handler as an
\* exception.
C12_FailureIsText ==
    toutcome \in UpstreamFailures => (tpc = "returned" /\ tresult \in ErrorTexts)

\* C12 where it holds: the same for the handlers whose upstream request sits
\* inside an `except Exception`; from the others the failure propagates.
C12_FailureIsTextWhereCaught ==
    toutcome \in UpstreamFailures =>
        IF Catches(tvariant, tname)
        THEN tpc = "returned" /\ tresult \in ErrorTexts
        ELSE tpc = "raised"


\* The shape of the events of one connection: `connected` first and only
\* first; `tools` only second, carrying what send_request returned; every
\* `heartbeat` after `tools`; `error` only last.
ShapeOK ==
    \A i \in 1..Len(events) :
        /\ events[i].ev = "connected" <=> i = 1
        /\ events[i].ev = "tools" =>
              (i = 2 /\ pc["sse"] = "done" /\ events[i].id = resp["sse"])
        /\ events[i].ev = "heartbeat" => (i >= 3 /\ events[2].ev = "tools")
        /\ events[i].ev = "error" => i = Len(events)

\* The stream has ended: its last event is `error`, or the poll has seen the
\* client gone.
Ended == observed \/ (events # <<>> /\ events[Len(events)].ev = "error")

C13_WitnessError ==
    /\ sse_pc = "closed"
    /\ Len(events) = 2
    /\ events[2].ev = "error"


\* An adapter request that met a bridge failure has been answered.
BridgeFailureAnswered == a_pc = "answered" /\ a_called /\ pc["call"] = "failed"

\* C14: when a bridge failure (spawn failure, child exited, malformed
\* response) occurs while an endpoint of the SSE wrapper serves a request, the
\* answer is a JSON object {"error": <exception message>} with a non-2xx
\* status.
C14_ErrorEnvelope ==
    BridgeFailureAnswered =>
        /\ a_resp.body = "error_object"
        /\ a_resp.msg = err["call"]
        /\ a_resp.status \notin 200..299

\* C14 as the code has it: the exception message comes back in a body with
\* status 200, an object from the /api endpoints and an array from the /mcp
\* ones; a later request is served.
C14_ErrorReturnedWith200 ==
    BridgeFailureAnswered =>
        /\ a_resp.body = (IF a_ep \in McpEndpoints THEN "error_pair" ELSE "error_object")
        /\ a_resp.msg = err["call"]
        /\ a_resp.status = 200

\* A request is answered with a result after an earlier one met a failure.
C14_ServedAfterFailure == a_failed /\ a_pc = "answered" /\ a_resp.body = "result"

\* The city endpoint answered a request whose geocoding found nothing.
CityNotFoundAnswered == a_pc = "answered" /\ a_ep = CityEndpoint /\ a_geo = "empty"

\* C15: for /api/aircraft/near/city/{city}, when geocoding returns an empty
\* list the response is a 404 failure whose error text contains the city
\* name, and the bridge is not called for that request.
C15_CityNotFound ==
    CityNotFoundAnswered =>
        /\ a_resp.status = 404
        /\ a_resp.body = "error_object"
        /\ a_resp.msg = "City not found"
        /\ a_resp.city = a_city
        /\ ~a_called

\* C15 as the code has it: the same text, with the city name and without a
\* bridge call, in a response with status 200.
C15_CityNotFoundWith200 ==
    CityNotFoundAnswered =>
        /\ a_resp.status = 200
        /\ a_resp.body = "error_object"
        /\ a_resp.msg = "City not found"
        /\ a_resp.city = a_city
        /\ ~a_called


\* C16: every endpoint of the HTTP facade makes exactly one upstream request
\* per facade request, to the path of its tool, without using the bridge;
\* it returns the upstream JSON unchanged on success, and answers every
\* upstream failure with 502 and the error message as detail.
C16_Facade ==
    /\ h_pc # "idle" =>
          /\ h_upstream = <<[ep |-> FacadePath(h_ep), arg |-> h_arg]>>
          /\ process = NoProcess /\ nspawn = 0 /\ wire = <<>>
    /\ h_pc = "answered" =>
          IF h_reply.o = "ok"
          THEN h_resp = [status |-> 200, body |-> h_reply.data, detail |-> ""]
          ELSE h_resp = [status |-> 502, body |-> "", detail |-> h_reply.msg]

\* /aircraft/hex was answered 502 after the upstream request timed out.
C16_Witness ==
    /\ h_pc = "answered"
    /\ h_ep = "/aircraft/hex"
    /\ h_reply.o = "timeout"
    /\ h_resp.status = 502

\* /aircraft/point was answered with the upstream JSON.
C16_WitnessSuccess ==
    /\ h_pc = "answered"
    /\ h_ep = "/aircraft/point"
    /\ h_resp.body = "json_b"


C18_SingleWriter ==
    [][(cron_pc # "none"
        /\ (cron_run_count' # cron_run_count \/ cron_last_run' # cron_last_run))
          => \E fails \in BOOLEAN : CronIterate(fails)]_vars

\* C18 as the code has it: the two globals change only in a step of the loop
\* or of the manual trigger.
C18_TwoWriters ==
    [][(cron_pc # "none"
        /\ (cron_run_count' # cron_run_count \/ cron_last_run' # cron_last_run))
          => ((\E fails \in BOOLEAN : CronIterate(fails)) \/ trigger_cron_manually)]_vars

\* C19: the run that follows a failed iteration happens 60 seconds after the
\* failure.
C19_RetryAfterDelay ==
    [][((\E fails \in BOOLEAN : CronIterate(fails)) /\ failed_at # NoTime)
          => now = failed_at + RetryDelay]_vars

\* C19 as the code has it: that run happens 60 + 840 seconds after the
\* failure.
C19_RetryAfterDelayAndInterval ==
    [][((\E fails \in BOOLEAN : CronIterate(fails)) /\ failed_at # NoTime)
          => now = failed_at + RetryDelay + Interval]_vars


\* C20: at most one child spawned by the bridge is alive, and a child that is
\* alive is the one the bridge holds.
C20_OneLiveChild ==
    /\ Cardinality({k \in 1..nspawn : Alive(k)}) <= 1
    /\ \A k \in 1..nspawn : Alive(k) => process = k

\* C20 for callers that never overlap: a live child is the one the bridge
\* holds.
C20_OneLiveChildSequential ==
    ~overlapped =>
        /\ Cardinality({k \in 1..nspawn : Alive(k)}) <= 1
        /\ \A k \in 1..nspawn : Alive(k) => process = k

\* A second child was spawned after the first one exited, without overlap.
C20_WitnessSequential == ~overlapped /\ nspawn = 2 /\ exited[1] /\ Alive(2)


\* Caller c is suspended in the readline of initialize() and what it will
\* read is a line that is no JSON, or EOF from a child that exited.
HandshakeReadFails(c) ==
    /\ pc[c] = "init_read"
    /\ \/ outbuf[rdr[c]] # <<>> /\ Head(outbuf[rdr[c]]) = BadLine
       \/ outbuf[rdr[c]] = <<>> /\ exited[rdr[c]]

\* The lines a step writes.
Written == SubSeq(wire', Len(wire) + 1, Len(wire'))

\* C21: when the handshake inside send_request fails (the child exited or
\* answered `initialize` with a line that does not parse), the call fails with
\* an error, the initialized flag is false, neither notifications/initialized
\* nor the caller's request is written; and the next send_request, once it
\* holds a live child, writes `initialize` before anything else.
C21_HandshakeRetried ==
    [][/\ \A c \in Callers :
            (Resume(c) /\ HandshakeReadFails(c))
                => /\ pc'[c] = "failed"
                   /\ err'[c] \in {"eof", "json"}
                   /\ req'[c] = 0
                   /\ initialized' = FALSE
                   /\ wire' = wire
       /\ \A c \in Callers :
            (hs_failed /\ StartCall(c))
                => \/ pc'[c] = "spawn"
                   \/ Written # <<>> /\ Written[1].m = "initialize"
       /\ \A c \in Callers :
            SpawnDone(c) => (Written # <<>> /\ Written[1].m = "initialize")]_vars

\* C21 for callers that never overlap.
C21_HandshakeRetriedSequential ==
    [][~overlapped' =>
       /\ \A c \in Callers :
            (Resume(c) /\ HandshakeReadFails(c))
                => /\ pc'[c] = "failed"
                   /\ err'[c] \in {"eof", "json"}
                   /\ req'[c] = 0
                   /\ initialized' = FALSE
                   /\ wire' = wire
       /\ \A c \in Callers :
            (hs_failed /\ StartCall(c))
                => \/ pc'[c] = "spawn"
                   \/ Written # <<>> /\ Written[1].m = "initialize"
       /\ \A c \in Callers :
            SpawnDone(c) => (Written # <<>> /\ Written[1].m = "initialize")]_vars

\* A handshake failed on a line that did not parse, the child stayed alive,
\* and the next call repeated the handshake on it and wrote its own request.
C21_Witness ==
    /\ ~overlapped
    /\ nspawn = 1 /\ ~exited[1]
    /\ \E i, j, n, r \in 1..Len(wire) :
          /\ i < j /\ j < n /\ n < r
          /\ wire[i].m = "initialize" /\ wire[j].m = "initialize"
          /\ wire[n].m = "notifications/initialized"
          /\ wire[r].m \in ToolMethods
    /\ NumWritten({"notifications/initialized"}) = 1

\* The child exited during the handshake and the next call handshakes with a
\* new child.
C21_WitnessExit ==
    /\ ~overlapped
    /\ nspawn = 2 /\ exited[1]
    /\ \A i \in 1..Len(wire) : wire[i].k = 1 => wire[i].m = "initialize"
    /\ \E i \in 1..Len(wire) : wire[i].k = 2 /\ wire[i].m \in ToolMethods


\* The child the bridge holds is running.
ChildRunning == process # NoProcess /\ ~exited[process]

\* C22: /health answers mcp_running = true exactly when the bridge's child is
\* alive: false when it was never spawned and when it has exited.
C22_HealthTruthful == [][health_check => (c_view'.active <=> ChildRunning)]_vars

\* C22 as the code has it: /health answers mcp_running = true exactly when
\* the bridge has ever been given a child.
C22_HealthSaysSpawned ==
    [][health_check => (c_view'.active <=> process # NoProcess)]_vars

\* /health answered true although the child had exited.
C22_WitnessStale ==
    c_view.kind = "health" /\ c_view.active /\ process # NoProcess /\ exited[process]

====
